---- MODULE Spec2Model ----
(***************************************************************************)
(* Assignment portal (src/app.py): a Flask application over four tables    *)
(* (Teacher, Student, Assignment, Submission), a cookie session and an     *)
(* external file store.  Each route handler that writes the database or    *)
(* the session is one action, and so is the student dashboard; the other   *)
(* read-only routes (file proxies, teacher pages, debug) are left out.     *)
(*                                                                         *)
(* Dates are day ordinals, so a difference of dates is a difference of     *)
(* integers.  Strings that the handlers normalise are sequences of         *)
(* one-character strings, so strip/upper/lower are computed.  Scores are   *)
(* the percentages of the source (95.0 is written 95).  Columns no handler *)
(* reads back (name, phone, title) are not kept, and the file store is     *)
(* seen through the URLs it hands out and the number of uploads.           *)
(*                                                                         *)
(* Spec runs every request from start to end.  SpecConcurrent lets         *)
(* submit_assignment requests overlap between their database queries.      *)
(* SpecLegacy starts on a database that holds Assignment rows stored        *)
(* before teacher_upload normalised the cohort fields.                     *)
(***************************************************************************)
EXTENDS Integers, Sequences, FiniteSets, TLC

VARIABLES
    teacher,        \* Teacher table: set of rows
    student,        \* Student table: set of rows
    assignment,     \* Assignment table: set of rows
    submission,     \* Submission table: set of rows
    nextSubmission, \* last value of the Submission primary-key sequence
    session,        \* the browser's Flask session
    today,          \* date.today()
    uploads,        \* number of cloudinary.uploader.upload calls so far
    inflight,       \* submit_assignment requests between their queries
    page            \* what the last completed request sent back

vars == <<teacher, student, assignment, submission, nextSubmission, session,
          today, uploads, inflight, page>>

----------------------------------------------------------------------------
(* Bounds of the model *)

MaxDay == 2
MaxSubmissionId == 2
MaxAssignmentId == 2
MaxRequests == 2

Requests == 1..MaxRequests

\* the due dates teachers enter: one that passes within the model's days,
\* one more than two days after its last day
FirstDue == MaxDay - 1
LastDue == MaxDay + 2

----------------------------------------------------------------------------
(* Strings *)

Blank == " "

\* the letters of the model's alphabet; every other character is caseless
Letters == <<<<"a", "A">>, <<"b", "B">>, <<"c", "C">>, <<"e", "E">>, <<"t", "T">>>>

LowerOf == [c \in {Letters[i][2] : i \in DOMAIN Letters} |->
              Letters[CHOOSE i \in DOMAIN Letters : Letters[i][2] = c][1]]

UpperOf == [c \in {Letters[i][1] : i \in DOMAIN Letters} |->
              Letters[CHOOSE i \in DOMAIN Letters : Letters[i][1] = c][2]]

\* str.lower / func.lower
Lower(s) == [i \in 1..Len(s) |-> IF s[i] \in DOMAIN LowerOf THEN LowerOf[s[i]] ELSE s[i]]

\* str.upper
Upper(s) == [i \in 1..Len(s) |-> IF s[i] \in DOMAIN UpperOf THEN UpperOf[s[i]] ELSE s[i]]

\* str.strip
Strip(s) ==
    LET keep == {i \in 1..Len(s) : s[i] # Blank}
    IN  IF keep = {} THEN <<>>
        ELSE LET lo == CHOOSE i \in keep : \A j \in keep : i <= j
                 hi == CHOOSE i \in keep : \A j \in keep : j <= i
             IN  SubSeq(s, lo, hi)

----------------------------------------------------------------------------
(* Session: a key that is absent from the Flask session is NoId here;      *)
(* primary keys start at 1.                                                *)

NoId == 0

EmptySession == [student_id |-> NoId, teacher_id |-> NoId]

\* the session left as it is
session_clear_keeps(s) == s

\* session.clear()
session_clear(s) == EmptySession

\* werkzeug generate_password_hash / check_password_hash: a salted digest
\* that verifies exactly the password it was made from
generate_password_hash(p) == <<"pbkdf2", p>>
check_password_hash(h, p) == h = <<"pbkdf2", p>>

----------------------------------------------------------------------------
(* Pages.  `page` is what the last completed request sent back: the       *)
(* template context of student_dashboard.html when it rendered the         *)
(* dashboard, and Redirected for every redirect, form or error page        *)
(* (their targets and flash messages are not kept).                        *)

Redirected == [template |-> "none"]

----------------------------------------------------------------------------
(* Request inputs *)

\* registration forms: one student of 2/CE/A, one of 2/EE/A
FormCE ==
    [email |-> <<"A", " ">>, rollno |-> <<"1">>, branch |-> <<" ", "C", "e", " ">>,
     year |-> <<"2">>, section |-> <<"a">>, password |-> "pw"]

FormEE ==
    [email |-> <<"b">>, rollno |-> <<"2", " ">>, branch |-> <<"e", "e">>,
     year |-> <<"2">>, section |-> <<"A", " ">>, password |-> "pw"]

StudentForms == {FormCE, FormEE}

TeacherForms ==
    { [email |-> <<"T">>, password |-> "pw"] }

StudentLoginForms ==
    { [email |-> <<>>, password |-> "pw"],
      [email |-> <<"a">>, password |-> "pw"],
      [email |-> <<"a">>, password |-> "bad"],
      [email |-> <<"B", " ">>, password |-> "pw"] }

TeacherLoginForms ==
    { [email |-> <<" ", "t">>, password |-> "pw"],
      [email |-> <<"t">>, password |-> ""] }

\* teacher_upload forms, both for the cohort 2/CE/A; a teacher posts each
\* form once
UploadSoon ==
    [year |-> <<"2">>, branch |-> <<"c", "e">>, section |-> <<" ", "a">>,
     due_date |-> FirstDue]

UploadLate ==
    [year |-> <<"2", " ">>, branch |-> <<" ", "C", "E">>, section |-> <<"A">>,
     due_date |-> LastDue]

UploadForms == {UploadSoon, UploadLate}

NoFile == "none"
Files == {"f1", "f2"}

\* cloudinary.uploader.upload(..., unique_filename=True)["secure_url"]: a
\* name no other upload gets; n counts the uploads of the kind
secure_url(kind, n) == <<kind, n>>

\* a submit_assignment request that is not running
Idle == [pc |-> "idle", student_id |-> NoId, assignment_id |-> NoId,
         file |-> NoFile, score |-> 0]

----------------------------------------------------------------------------
Init ==
    /\ teacher = {}
    /\ student = {}
    /\ assignment = {}
    /\ submission = {}
    /\ nextSubmission = 0
    /\ session = EmptySession
    /\ today = 1
    /\ uploads = 0
    /\ inflight = [r \in Requests |-> Idle]
    /\ page = Redirected

\* the calendar moves on
Tick ==
    /\ today < MaxDay
    /\ today' = today + 1
    /\ UNCHANGED <<teacher, student, assignment, submission, nextSubmission,
                   session, uploads, inflight, page>>

----------------------------------------------------------------------------
(* Student accounts *)

\* Student(...) as student_register builds it
NewStudent(form, id) ==
    [id |-> id,
     roll_no |-> Strip(form.rollno),
     branch |-> Upper(Strip(form.branch)),
     year |-> Upper(Strip(form.year)),
     section |-> Upper(Strip(form.section)),
     email |-> Lower(Strip(form.email)),
     password |-> generate_password_hash(form.password)]

student_register(form) ==
    /\ UNCHANGED <<teacher, assignment, submission, nextSubmission, today,
                   uploads, inflight>>
    /\ IF session.student_id # NoId
       THEN /\ page' = Redirected
            /\ UNCHANGED <<student, session>>
       ELSE LET email == Lower(Strip(form.email))
                roll_no == Strip(form.rollno)
                exists == \E s \in student : s.email = email \/ s.roll_no = roll_no
                new == NewStudent(form, Cardinality(student) + 1)
            IN  IF exists
                THEN /\ page' = Redirected
                     /\ UNCHANGED <<student, session>>
                ELSE /\ student' = student \cup {new}
                     /\ session' = [session_clear(session) EXCEPT !.student_id = new.id]
                     /\ page' = Redirected

student_login(form) ==
    /\ UNCHANGED <<teacher, student, assignment, submission, nextSubmission,
                   today, uploads, inflight>>
    /\ IF session.student_id # NoId
       THEN /\ page' = Redirected
            /\ UNCHANGED session
       ELSE LET email == Lower(Strip(form.email))
                found == {s \in student : s.email = email}
            IN  IF email = <<>> \/ form.password = ""
                THEN /\ page' = Redirected
                     /\ UNCHANGED session
                ELSE IF \E s \in found : check_password_hash(s.password, form.password)
                THEN /\ \E s \in found :
                           session' = [session_clear(session) EXCEPT !.student_id = s.id]
                     /\ page' = Redirected
                ELSE /\ page' = Redirected
                     /\ UNCHANGED session

student_logout ==
    /\ session' = session_clear(session)
    /\ page' = Redirected
    /\ UNCHANGED <<teacher, student, assignment, submission, nextSubmission,
                   today, uploads, inflight>>

----------------------------------------------------------------------------
(* Teacher accounts and assignments *)

teacher_register(form) ==
    /\ UNCHANGED <<student, assignment, submission, nextSubmission, session,
                   today, uploads, inflight>>
    /\ IF session.teacher_id # NoId
       THEN /\ page' = Redirected
            /\ UNCHANGED teacher
       ELSE LET email == Lower(Strip(form.email))
                new == [id |-> Cardinality(teacher) + 1,
                        email |-> email,
                        password |-> generate_password_hash(form.password)]
            IN  IF \E t \in teacher : t.email = email
                THEN /\ page' = Redirected
                     /\ UNCHANGED teacher
                ELSE /\ teacher' = teacher \cup {new}
                     /\ page' = Redirected

teacher_login(form) ==
    /\ UNCHANGED <<teacher, student, assignment, submission, nextSubmission,
                   today, uploads, inflight>>
    /\ IF session.teacher_id # NoId
       THEN /\ page' = Redirected
            /\ UNCHANGED session
       ELSE LET email == Lower(Strip(form.email))
                found == {t \in teacher : t.email = email}
            IN  IF email = <<>> \/ form.password = ""
                THEN /\ page' = Redirected
                     /\ UNCHANGED session
                ELSE IF \E t \in found : check_password_hash(t.password, form.password)
                THEN /\ \E t \in found :
                           session' = [session_clear(session) EXCEPT !.teacher_id = t.id]
                     /\ page' = Redirected
                ELSE /\ page' = Redirected
                     /\ UNCHANGED session

teacher_logout ==
    /\ session' = session_clear(session)
    /\ page' = Redirected
    /\ UNCHANGED <<teacher, student, assignment, submission, nextSubmission,
                   today, uploads, inflight>>

\* the cohort fields upper-cased but not trimmed
NewAssignment_untrimmed(form, id) ==
    [id |-> id,
     year |-> Upper(form.year),
     branch |-> Upper(form.branch),
     section |-> Upper(form.section),
     due_date |-> form.due_date,
     file_url |-> secure_url("assignment", id)]

\* Assignment(...) as teacher_upload builds it
NewAssignment(form, id) ==
    [id |-> id,
     year |-> Upper(Strip(form.year)),
     branch |-> Upper(Strip(form.branch)),
     section |-> Upper(Strip(form.section)),
     due_date |-> form.due_date,
     file_url |-> secure_url("assignment", id)]

teacher_upload(file, form) ==
    /\ UNCHANGED <<teacher, student, submission, nextSubmission, session, today,
                   inflight>>
    /\ IF session.teacher_id = NoId
       THEN /\ page' = Redirected
            /\ UNCHANGED <<assignment, uploads>>
       ELSE IF file = NoFile
       THEN /\ page' = Redirected
            /\ UNCHANGED <<assignment, uploads>>
       ELSE /\ \A a \in assignment : a # NewAssignment(form, a.id)
            /\ uploads' = uploads + 1
            /\ assignment' = assignment \cup
                   {NewAssignment(form, Cardinality(assignment) + 1)}
            /\ page' = Redirected

----------------------------------------------------------------------------
(* Plagiarism *)

\* hashlib.sha256(content).hexdigest(): equal digests only for equal content
calculate_hash(file) == <<"sha256", file>>

ScoreMatch == 95
ScoreNoMatch == 5

\* the filter on assignment_id left out
plagiarism_check_any_assignment(rows, assignment_id, file_hash) ==
    IF \E s \in rows : s.file_hash = file_hash THEN ScoreMatch ELSE ScoreNoMatch

\* a score summed over the matching rows
plagiarism_check_summed(rows, assignment_id, file_hash) ==
    LET existing == {s \in rows : /\ s.assignment_id = assignment_id
                                  /\ s.file_hash = file_hash}
    IN  IF existing # {} THEN ScoreMatch * Cardinality(existing) ELSE ScoreNoMatch

\* Submission.query.filter_by(assignment_id=..., file_hash=...).first(),
\* over the Submission rows `rows`
plagiarism_check(rows, assignment_id, file_hash) ==
    LET existing == {s \in rows : /\ s.assignment_id = assignment_id
                                  /\ s.file_hash = file_hash}
    IN  IF existing # {} THEN ScoreMatch ELSE ScoreNoMatch

----------------------------------------------------------------------------
(* Student dashboard *)

RECURSIVE SortedSeq(_)
\* the ids of S in primary-key order
SortedSeq(S) ==
    IF S = {} THEN <<>>
    ELSE LET m == CHOOSE x \in S : \A y \in S : x <= y
         IN  <<m>> \o SortedSeq(S \ {m})

UrgentDays == 2

\* the due date itself counted as expired
Color_due_day_red(days_left) ==
    IF days_left <= 0 THEN "red"
    ELSE IF days_left <= UrgentDays THEN "orange"
    ELSE "green"

Color(days_left) ==
    IF days_left < 0 THEN "red"
    ELSE IF days_left <= UrgentDays THEN "orange"
    ELSE "green"

CanUpload(days_left) ==
    IF days_left < 0 THEN FALSE
    ELSE IF days_left <= UrgentDays THEN TRUE
    ELSE TRUE

\* the Assignment rows the dashboard query returns for student st
CohortAssignments(st) ==
    {a \in assignment : /\ Lower(a.year) = Lower(st.year)
                        /\ Lower(a.branch) = Lower(st.branch)
                        /\ Lower(a.section) = Lower(st.section)}

\* submitted_map[a]: the dict keeps the last row of the query for each key
SubmittedMap(st, aid) ==
    LET mine == {s \in submission : s.student_id = st.id /\ s.assignment_id = aid}
    IN  CHOOSE s \in mine : \A t \in mine : t.id <= s.id

InSubmittedMap(st, aid) ==
    \E s \in submission : s.student_id = st.id /\ s.assignment_id = aid

AvailableEntry(a, day) ==
    [assignment |-> a,
     days_left |-> a.due_date - day,
     color |-> Color(a.due_date - day),
     can_upload |-> CanUpload(a.due_date - day)]

SubmittedEntry(a, s, day) ==
    [assignment |-> a,
     submitted_on |-> s.submitted_on,
     file_url |-> s.file_url,
     plagiarism_score |-> s.plagiarism_score,   \* "or 0": every row has a score
     days_left |-> a.due_date - day,
     color |-> Color(a.due_date - day),
     submission_id |-> s.id]

AssignmentById(aid) == CHOOSE a \in assignment : a.id = aid

\* the submitted_map test left out
AvailableAssignments_unfiltered(st, day) ==
    LET ids == SortedSeq({a.id : a \in CohortAssignments(st)})
    IN  [i \in 1..Len(ids) |-> AvailableEntry(AssignmentById(ids[i]), day)]

AvailableAssignments(st, day) ==
    LET ids == SortedSeq({a.id : a \in {b \in CohortAssignments(st) :
                                           ~InSubmittedMap(st, b.id)}})
    IN  [i \in 1..Len(ids) |-> AvailableEntry(AssignmentById(ids[i]), day)]

SubmittedAssignments(st, day) ==
    LET ids == SortedSeq({a.id : a \in {b \in CohortAssignments(st) :
                                           InSubmittedMap(st, b.id)}})
    IN  [i \in 1..Len(ids) |->
            SubmittedEntry(AssignmentById(ids[i]), SubmittedMap(st, ids[i]), day)]

student_dashboard ==
    /\ UNCHANGED <<teacher, student, assignment, submission, nextSubmission,
                   session, today, uploads, inflight>>
    /\ IF session.student_id = NoId
       THEN page' = Redirected
       ELSE LET st == CHOOSE s \in student : s.id = session.student_id
            IN  page' = [template |-> "student_dashboard.html",
                         student |-> st,
                         available_assignments |-> AvailableAssignments(st, today),
                         submitted_assignments |-> SubmittedAssignments(st, today),
                         current_date |-> today]

----------------------------------------------------------------------------
(* Submitting and deleting *)

\* the due date itself counted as crossed
deadline_crossed_strict(a, day) == a.due_date <= day

\* assignment.due_date < date.today()
deadline_crossed(a, day) == a.due_date < day

\* the lookup before the insert left out
submit_checks_no_lookup(assignment_id, file) ==
    IF session.student_id = NoId
    THEN "student_login"
    ELSE IF ~\E a \in assignment : a.id = assignment_id
    THEN "404"
    ELSE IF deadline_crossed(AssignmentById(assignment_id), today)
    THEN "Deadline crossed"
    ELSE IF file = NoFile
    THEN "No file selected"
    ELSE "ok"

\* submit_assignment up to the file check: the flash message (or the page)
\* that rejects the request, or "ok"
submit_checks(assignment_id, file) ==
    IF session.student_id = NoId
    THEN "student_login"
    ELSE IF ~\E a \in assignment : a.id = assignment_id
    THEN "404"
    ELSE IF deadline_crossed(AssignmentById(assignment_id), today)
    THEN "Deadline crossed"
    ELSE IF \E s \in submission : /\ s.student_id = session.student_id
                                   /\ s.assignment_id = assignment_id
    THEN "Already submitted"
    ELSE IF file = NoFile
    THEN "No file selected"
    ELSE "ok"

\* an insert under a unique constraint on (student_id, assignment_id)
InsertSubmissionUnique(rows, row) ==
    IF \E s \in rows : /\ s.student_id = row.student_id
                        /\ s.assignment_id = row.assignment_id
    THEN rows
    ELSE rows \cup {row}

\* db.session.merge in place of add: the new values written over the row the
\* pair already has
InsertSubmissionUpsert(rows, row) ==
    LET old == {s \in rows : /\ s.student_id = row.student_id
                              /\ s.assignment_id = row.assignment_id}
    IN  IF old = {} THEN rows \cup {row}
        ELSE (rows \ old) \cup {[row EXCEPT !.id = s.id] : s \in old}

\* db.session.add(submission); db.session.commit()
InsertSubmission(rows, row) == rows \cup {row}

\* the upload and the insert that end submit_assignment
submit_store(student_id, assignment_id, file, score) ==
    /\ uploads' = uploads + 1
    /\ nextSubmission' = nextSubmission + 1
    /\ submission' = InsertSubmission(submission,
                         [id |-> nextSubmission + 1,
                          student_id |-> student_id,
                          assignment_id |-> assignment_id,
                          file_url |-> secure_url("submission", nextSubmission + 1),
                          file_hash |-> calculate_hash(file),
                          submitted_on |-> today,
                          plagiarism_score |-> score])
    /\ page' = Redirected

\* the file sent to the store before the checks reject the request
submit_assignment_uploads_first(assignment_id, file) ==
    /\ UNCHANGED <<teacher, student, assignment, session, today, inflight>>
    /\ IF submit_checks(assignment_id, file) = "ok"
       THEN /\ nextSubmission < MaxSubmissionId
            /\ submit_store(session.student_id, assignment_id, file,
                            plagiarism_check(submission, assignment_id,
                                             calculate_hash(file)))
       ELSE /\ page' = Redirected
            /\ uploads' = IF file # NoFile /\ session.student_id # NoId
                          THEN uploads + 1 ELSE uploads
            /\ UNCHANGED <<submission, nextSubmission>>

\* the handler run without interruption
submit_assignment(assignment_id, file) ==
    /\ UNCHANGED <<teacher, student, assignment, session, today, inflight>>
    /\ IF submit_checks(assignment_id, file) # "ok"
       THEN /\ page' = Redirected
            /\ UNCHANGED <<submission, nextSubmission, uploads>>
       ELSE /\ nextSubmission < MaxSubmissionId
            /\ submit_store(session.student_id, assignment_id, file,
                            plagiarism_check(submission, assignment_id,
                                             calculate_hash(file)))

\* the handler of request r up to the file check
submit_begin(r, assignment_id, file) ==
    /\ inflight[r].pc = "idle"
    /\ UNCHANGED <<teacher, student, assignment, submission, nextSubmission,
                   session, today, uploads>>
    /\ IF submit_checks(assignment_id, file) # "ok"
       THEN /\ page' = Redirected
            /\ UNCHANGED inflight
       ELSE /\ nextSubmission + Cardinality({q \in Requests : inflight[q].pc # "idle"})
                < MaxSubmissionId
            /\ inflight' = [inflight EXCEPT ![r] =
                               [pc |-> "checked", student_id |-> session.student_id,
                                assignment_id |-> assignment_id, file |-> file,
                                score |-> 0]]
            /\ UNCHANGED page

\* a check that also writes the match score onto the rows it matched
submit_score_marks_match(r) ==
    LET h == calculate_hash(inflight[r].file)
        hit(s) == s.assignment_id = inflight[r].assignment_id /\ s.file_hash = h
    IN  /\ inflight[r].pc = "checked"
        /\ inflight' = [inflight EXCEPT ![r].pc = "scored",
                                        ![r].score = plagiarism_check(submission,
                                                         inflight[r].assignment_id, h)]
        /\ submission' = {IF hit(s) THEN [s EXCEPT !.plagiarism_score = ScoreMatch]
                                    ELSE s : s \in submission}
        /\ UNCHANGED <<teacher, student, assignment, nextSubmission, session,
                       today, uploads, page>>

\* request r computes the hash and the score
submit_score(r) ==
    /\ inflight[r].pc = "checked"
    /\ inflight' = [inflight EXCEPT ![r].pc = "scored",
                                    ![r].score = plagiarism_check(submission,
                                                     inflight[r].assignment_id,
                                                     calculate_hash(inflight[r].file))]
    /\ UNCHANGED <<teacher, student, assignment, submission, nextSubmission,
                   session, today, uploads, page>>

\* request r uploads the file and commits its row
submit_commit(r) ==
    /\ inflight[r].pc = "scored"
    /\ submit_store(inflight[r].student_id, inflight[r].assignment_id,
                    inflight[r].file, inflight[r].score)
    /\ inflight' = [inflight EXCEPT ![r] = Idle]
    /\ UNCHANGED <<teacher, student, assignment, session, today>>

\* the owner test left out
delete_allowed_any(s) == TRUE

\* whether delete_submission reaches db.session.delete for the row
delete_allowed(s) == s.student_id = session.student_id

\* the scores of the rows that stay computed again after a delete
delete_submission_rescoring(submission_id) ==
    /\ UNCHANGED <<teacher, student, assignment, nextSubmission, session, today,
                   uploads, inflight>>
    /\ page' = Redirected
    /\ IF /\ session.student_id # NoId
          /\ \E s \in submission : s.id = submission_id /\ delete_allowed(s)
       THEN LET rest == {s \in submission : s.id # submission_id}
            IN  submission' =
                    {[s EXCEPT !.plagiarism_score =
                          plagiarism_check(rest \ {s}, s.assignment_id, s.file_hash)]
                        : s \in rest}
       ELSE UNCHANGED submission

delete_submission(submission_id) ==
    /\ UNCHANGED <<teacher, student, assignment, nextSubmission, session, today,
                   uploads, inflight>>
    /\ IF session.student_id = NoId
       THEN /\ page' = Redirected
            /\ UNCHANGED submission
       ELSE IF ~\E s \in submission : s.id = submission_id
       THEN /\ page' = Redirected
            /\ UNCHANGED submission
       ELSE LET s == CHOOSE t \in submission : t.id = submission_id
            IN  IF ~delete_allowed(s)
                THEN /\ page' = Redirected
                     /\ UNCHANGED submission
                ELSE /\ submission' = submission \ {s}
                     /\ page' = Redirected

----------------------------------------------------------------------------
(* Specifications *)

Accounts ==
    \/ \E f \in StudentForms : student_register(f)
    \/ \E f \in StudentLoginForms : student_login(f)
    \/ student_logout
    \/ \E f \in TeacherForms : teacher_register(f)
    \/ \E f \in TeacherLoginForms : teacher_login(f)
    \/ teacher_logout

Teaching ==
    \E file \in {"f1", NoFile}, f \in UploadForms : teacher_upload(file, f)

Deleting == \E id \in 1..MaxSubmissionId : delete_submission(id)

\* every request runs from start to end before the next one starts
Next ==
    \/ Tick
    \/ Accounts
    \/ Teaching
    \/ student_dashboard
    \/ \E a \in 1..MaxAssignmentId, file \in Files \cup {NoFile} :
           submit_assignment(a, file)
    \/ Deleting

Spec == Init /\ [][Next]_vars

\* submit_assignment requests overlap: other requests run between the
\* queries of a submit.  The database already holds both students and the
\* assignment of the first upload form (a state Spec reaches).
InitConcurrent ==
    /\ teacher = {}
    /\ student = {NewStudent(FormCE, 1), NewStudent(FormEE, 2)}
    /\ assignment = {NewAssignment(UploadSoon, 1)}
    /\ submission = {}
    /\ nextSubmission = 0
    /\ session = EmptySession
    /\ today = 1
    /\ uploads = 1
    /\ inflight = [r \in Requests |-> Idle]
    /\ page = Redirected

NextConcurrent ==
    \/ Tick
    \/ \E f \in StudentLoginForms : student_login(f)
    \/ student_logout
    \/ student_dashboard
    \/ \E r \in Requests, a \in 1..MaxAssignmentId, file \in Files \cup {NoFile} :
           submit_begin(r, a, file)
    \/ \E r \in Requests : submit_score(r)
    \/ \E r \in Requests : submit_commit(r)
    \/ Deleting

SpecConcurrent == InitConcurrent /\ [][NextConcurrent]_vars

\* Assignment rows the table holds from before teacher_upload normalised
\* its fields: the columns are free text, and the dashboard's lower() is
\* there for such rows.  One differs from 2/CE/A in case only, one also in
\* surrounding blanks.
LegacyAssignments ==
    { [id |-> 1, year |-> <<"2">>, branch |-> <<"c", "e">>, section |-> <<"a">>,
       due_date |-> FirstDue, file_url |-> secure_url("assignment", 1)],
      [id |-> 2, year |-> <<"2">>, branch |-> <<" ", "c", "e", " ">>,
       section |-> <<"A">>, due_date |-> LastDue,
       file_url |-> secure_url("assignment", 2)] }

\* the application started on a database that already holds both students
\* and the legacy assignments
InitLegacy ==
    /\ teacher = {}
    /\ student = {NewStudent(FormCE, 1), NewStudent(FormEE, 2)}
    /\ assignment = LegacyAssignments
    /\ submission = {}
    /\ nextSubmission = 0
    /\ session = EmptySession
    /\ today = 1
    /\ uploads = Cardinality(LegacyAssignments)
    /\ inflight = [r \in Requests |-> Idle]
    /\ page = Redirected

NextLegacy ==
    \/ Tick
    \/ \E f \in StudentLoginForms : student_login(f)
    \/ student_logout
    \/ student_dashboard
    \/ \E a \in 1..MaxAssignmentId, file \in Files \cup {NoFile} :
           submit_assignment(a, file)
    \/ Deleting

SpecLegacy == InitLegacy /\ [][NextLegacy]_vars

----------------------------------------------------------------------------
(* Properties *)

Hashes == {calculate_hash(f) : f \in Files}

Range(q) == {q[i] : i \in DOMAIN q}

IsDashboard == page.template = "student_dashboard.html"

\* the rows of student sid for assignment aid
RowsOf(sid, aid) ==
    {s \in submission : s.student_id = sid /\ s.assignment_id = aid}

\* a cohort as the specification compares it: trimmed, case folded
CohortKey(r) == <<Lower(Strip(r.year)), Lower(Strip(r.branch)), Lower(Strip(r.section))>>

\* C1: with requests run one at a time, there is at most one stored
\* Submission for every (student, assignment) pair.
C1_OnePerPair ==
    \A s \in submission : RowsOf(s.student_id, s.assignment_id) = {s}

\* the logged-in student holds a submission for an assignment that is still
\* open, and a further submit with a file is rejected by the lookup alone
C1_Witness ==
    \E s \in submission :
        /\ s.student_id = session.student_id
        /\ ~deadline_crossed(AssignmentById(s.assignment_id), today)
        /\ nextSubmission < MaxSubmissionId
        /\ submit_checks(s.assignment_id, "f1") = "Already submitted"

\* C2: the commit of an overlapping submit_assignment adds its row whatever
\* the table holds: no constraint of the table rejects a second row for the
\* same (student, assignment) pair.
C2_CommitAlwaysInserts ==
    [][\A r \in Requests :
          (inflight[r].pc = "scored" /\ inflight'[r].pc = "idle") =>
              /\ Cardinality(submission') = Cardinality(submission) + 1
              /\ \E s \in submission' \ submission :
                     /\ s.student_id = inflight[r].student_id
                     /\ s.assignment_id = inflight[r].assignment_id]_vars

\* two rows of one student for one assignment are stored
C2_Witness ==
    \E s, t \in submission :
        /\ s.id # t.id
        /\ s.student_id = t.student_id
        /\ s.assignment_id = t.assignment_id

\* C3: a submission whose hash equals the hash stored for a prior submission
\* to the same assignment is scored 100: plagiarism_check returns 100 for it
\* and submit_assignment stores 100 on the new row.
C3_ExactMatchScores100 ==
    [][\A s \in submission' \ submission :
          (\E p \in submission : /\ p.assignment_id = s.assignment_id
                                 /\ p.file_hash = s.file_hash) =>
              /\ plagiarism_check(submission, s.assignment_id, s.file_hash) = 100
              /\ s.plagiarism_score = 100]_vars

\* C4: with no Submission stored for an assignment plagiarism_check returns 0,
\* and the first row stored for the assignment carries 0.
C4_NoPriorScoresZero ==
    [][\A s \in submission' \ submission :
          (~\E p \in submission : p.assignment_id = s.assignment_id) =>
              /\ plagiarism_check(submission, s.assignment_id, s.file_hash) = 0
              /\ s.plagiarism_score = 0]_vars

\* rows of another assignment than aid, one for every hash, that a database
\* could hold as well
ForeignRows(aid) ==
    LET b == CHOOSE x \in 1..(MaxAssignmentId + 1) : x # aid
    IN  {[id |-> MaxSubmissionId + 1,
          student_id |-> 1,
          assignment_id |-> b,
          file_url |-> secure_url("submission", MaxSubmissionId + 1),
          file_hash |-> h,
          submitted_on |-> 1,
          plagiarism_score |-> ScoreNoMatch] : h \in Hashes}

\* C5: the score for assignment A depends only on the rows stored for A: any
\* database with the same rows for A and other rows for other assignments
\* gives the same score, and a hash stored only under another assignment
\* gives the no-match score.
C5_OnlySameAssignment ==
    \A aid \in 1..MaxAssignmentId, h \in Hashes :
        LET mine == {s \in submission : s.assignment_id = aid}
        IN  /\ \A others \in SUBSET ForeignRows(aid) :
                   plagiarism_check(mine \cup others, aid, h)
                       = plagiarism_check(submission, aid, h)
            /\ (~\E s \in mine : s.file_hash = h) =>
                   plagiarism_check(submission, aid, h) = ScoreNoMatch

\* a hash is stored under one assignment and not under another that has rows
C5_Witness ==
    \E s, t \in submission :
        /\ s.assignment_id # t.assignment_id
        /\ ~\E u \in submission :
               u.assignment_id = t.assignment_id /\ u.file_hash = s.file_hash

\* C6: every stored plagiarism_score and every value of plagiarism_check is
\* between 0 and 100.
C6_ScoreInRange ==
    /\ \A s \in submission : s.plagiarism_score >= 0 /\ s.plagiarism_score <= 100
    /\ \A aid \in 1..MaxAssignmentId, h \in Hashes :
           /\ plagiarism_check(submission, aid, h) >= 0
           /\ plagiarism_check(submission, aid, h) <= 100

\* two rows with one hash are stored for one assignment, the later one scored
\* as a match
C6_Witness ==
    \E s, t \in submission :
        /\ s.id < t.id
        /\ s.assignment_id = t.assignment_id
        /\ s.file_hash = t.file_hash
        /\ t.plagiarism_score = ScoreMatch
        /\ s.plagiarism_score = ScoreNoMatch

\* C7: a Submission is removed only while the current date is not past the
\* due date of its assignment.
C7_DeleteOnlyBeforeDue ==
    [][\A s \in submission :
          s \notin submission' =>
              today <= AssignmentById(s.assignment_id).due_date]_vars

\* the ids of the assignments listed in q
ListedIds(q) == {e.assignment.id : e \in Range(q)}

\* every assignment of the student's cohort is listed once, in one list
C8_CohortPartition ==
    LET av == page.available_assignments
        su == page.submitted_assignments
    IN  /\ \A a \in assignment :
               CohortKey(a) = CohortKey(page.student) <=>
                   a.id \in ListedIds(av) \cup ListedIds(su)
        /\ ListedIds(av) \cap ListedIds(su) = {}
        /\ \A i, j \in DOMAIN av : av[i].assignment.id = av[j].assignment.id => i = j
        /\ \A i, j \in DOMAIN su : su[i].assignment.id = su[j].assignment.id => i = j

\* C8 as stated: on the dashboard every assignment the student has a stored
\* Submission for is in submitted_assignments and not in
\* available_assignments, and every assignment of the cohort is in exactly
\* one of the two lists.
C8_SubmittedListed ==
    IsDashboard =>
        /\ \A a \in assignment :
               RowsOf(page.student.id, a.id) # {} =>
                   /\ a.id \in ListedIds(page.submitted_assignments)
                   /\ a.id \notin ListedIds(page.available_assignments)
        /\ C8_CohortPartition

\* C8 amended: an assignment the student has a stored Submission for is never
\* in available_assignments, and is in submitted_assignments when it is of
\* the student's cohort; every assignment of the cohort is in exactly one of
\* the two lists.
C8_SubmittedNeverAvailable ==
    IsDashboard =>
        /\ \A a \in assignment :
               RowsOf(page.student.id, a.id) # {} =>
                   /\ a.id \notin ListedIds(page.available_assignments)
                   /\ CohortKey(a) = CohortKey(page.student) =>
                          a.id \in ListedIds(page.submitted_assignments)
        /\ C8_CohortPartition

\* the dashboard lists a submitted assignment that is not yet due beside an
\* available one
C8_Witness ==
    /\ IsDashboard
    /\ \E e \in Range(page.submitted_assignments) : e.days_left > 0
    /\ page.available_assignments # <<>>

\* C9: every available entry has days_left = due_date - current date, and
\* its colour and can_upload follow from days_left alone: below 0 red and
\* no upload, 0 to 2 orange and upload, above 2 green and upload.
C9_Tiers ==
    IsDashboard =>
        \A e \in Range(page.available_assignments) :
            /\ e.days_left = e.assignment.due_date - page.current_date
            /\ e.days_left < 0 => e.color = "red" /\ ~e.can_upload
            /\ (0 <= e.days_left /\ e.days_left <= 2) =>
                   e.color = "orange" /\ e.can_upload
            /\ e.days_left > 2 => e.color = "green" /\ e.can_upload

\* the dashboard shows an expired assignment beside one due in two days
C9_Witness ==
    /\ IsDashboard
    /\ \E e \in Range(page.available_assignments) : e.days_left = -1
    /\ \E e \in Range(page.available_assignments) : e.days_left = 2

\* C10: for every assignment and date, the dashboard's can_upload is true
\* exactly when submit_assignment's deadline check passes, which is exactly
\* when the date is not after the due date; a dashboard of today offers the
\* upload exactly for the assignments a submit with a file is accepted for.
C10_DeadlineAgrees ==
    /\ \A a \in assignment, day \in 1..(MaxDay + 3) :
           /\ CanUpload(a.due_date - day) <=> ~deadline_crossed(a, day)
           /\ CanUpload(a.due_date - day) <=> day <= a.due_date
    /\ (IsDashboard /\ page.current_date = today) =>
           \A e \in Range(page.available_assignments) :
               e.can_upload <=> submit_checks(e.assignment.id, "f1") = "ok"

\* the dashboard of the due date offers the upload
C10_Witness ==
    /\ IsDashboard
    /\ page.current_date = today
    /\ \E e \in Range(page.available_assignments) :
           e.assignment.due_date = today /\ e.can_upload

C12_FileImmutable ==
    [][\A s \in submission : \A t \in submission' :
          t.id = s.id => t.file_url = s.file_url /\ t.file_hash = s.file_hash]_vars

\* a row is still stored with the values of its creation on a later day,
\* after a later submit has been stored
C12_Witness ==
    \E s \in submission :
        /\ s.id < nextSubmission
        /\ s.submitted_on < today
        /\ s.file_url = secure_url("submission", s.id)
        /\ s.file_hash \in Hashes

\* C13: the step of submit_assignment that calls plagiarism_check leaves the
\* Teacher, Student, Assignment and Submission tables and the session as they
\* were; the score it returned is stored only by the insert of the same
\* request, on the row that request adds, and on no other row.
C13_CheckHasNoEffect ==
    [][/\ \A r \in Requests :
             (inflight[r].pc = "checked" /\ inflight'[r].pc = "scored") =>
                 /\ inflight'[r].score = plagiarism_check(submission,
                                             inflight[r].assignment_id,
                                             calculate_hash(inflight[r].file))
                 /\ UNCHANGED <<teacher, student, assignment, submission, session>>
       /\ \A s \in submission : \A t \in submission' :
             t.id = s.id => t.plagiarism_score = s.plagiarism_score
       /\ \A t \in submission' \ submission :
             \E r \in Requests : /\ inflight[r].pc = "scored"
                                  /\ inflight'[r].pc = "idle"
                                  /\ t.plagiarism_score = inflight[r].score]_vars

\* a request holds the match score it was returned, and the row it matched is
\* stored with its own score
C13_Witness ==
    \E r \in Requests :
        /\ inflight[r].pc = "scored"
        /\ inflight[r].score = ScoreMatch
        /\ \E s \in submission :
               /\ s.assignment_id = inflight[r].assignment_id
               /\ s.file_hash = calculate_hash(inflight[r].file)
               /\ s.plagiarism_score = ScoreNoMatch

\* C14: every stored Submission has submitted_on <= the due_date of its
\* assignment.
C14_SubmittedByDue ==
    \A s \in submission :
        s.submitted_on <= AssignmentById(s.assignment_id).due_date

\* C15: a Submission is removed only by a step taken with the submission's
\* own student in the session, and that step removes that row alone; with no
\* student in the session, or another student, no stored row is removed.
C15_OnlyOwnerDeletes ==
    [][\A s \in submission :
          s \notin submission' =>
              /\ session.student_id # NoId
              /\ session.student_id = s.student_id
              /\ submission' = submission \ {s}]_vars

\* a row has been deleted, and a student is logged in who is not the owner
\* of a row that is still stored
C15_Witness ==
    /\ nextSubmission > Cardinality(submission)
    /\ session.student_id # NoId
    /\ \E s \in submission : s.student_id # session.student_id

\* C16: a step adds a Submission row only when all four checks of
\* submit_assignment pass in the state it is taken in (a student in the
\* session, the due date not passed, no row of the student for the
\* assignment, a file attached), and the file store is sent one file for
\* every row added and none otherwise: a rejected request adds no row and
\* uploads nothing.
C16_RejectedSubmitNoEffect ==
    [][/\ \A t \in submission' \ submission :
             /\ session.student_id # NoId
             /\ t.student_id = session.student_id
             /\ \E a \in assignment : a.id = t.assignment_id
             /\ ~deadline_crossed(AssignmentById(t.assignment_id), today)
             /\ RowsOf(t.student_id, t.assignment_id) = {}
             /\ \E f \in Files : /\ t.file_hash = calculate_hash(f)
                                  /\ submit_checks(t.assignment_id, f) = "ok"
       /\ uploads' - uploads = Cardinality(submission' \ submission)
                                + Cardinality(assignment' \ assignment)]_vars

\* a request was answered without a page, and a submit with a file by the
\* student in the session is rejected for one assignment because its due
\* date has passed and for another because the student has a row for it
C16_Witness ==
    /\ page = Redirected
    /\ nextSubmission < MaxSubmissionId
    /\ \E a, b \in assignment :
           /\ submit_checks(a.id, "f1") = "Deadline crossed"
           /\ submit_checks(b.id, "f2") = "Already submitted"

\* C17: with requests run one at a time, a row is created with the match
\* score exactly when a row of another student with the same file_hash for
\* the same assignment is stored at that moment, and with the no-match score
\* otherwise; no row of the student's own is stored for the assignment then,
\* so a file is never matched against the student's own earlier submission;
\* and a stored row keeps its score through every later step.
C17_ScoreFixedAtCreation ==
    [][/\ \A t \in submission' \ submission :
             LET other == \E p \in submission : /\ p.student_id # t.student_id
                                                 /\ p.assignment_id = t.assignment_id
                                                 /\ p.file_hash = t.file_hash
             IN  /\ t.plagiarism_score = IF other THEN ScoreMatch ELSE ScoreNoMatch
                 /\ RowsOf(t.student_id, t.assignment_id) = {}
       /\ \A s \in submission : \A t \in submission' :
             t.id = s.id => t.plagiarism_score = s.plagiarism_score]_vars

\* a row carries the match score and the row it matched is no longer stored
C17_Witness ==
    \E s \in submission :
        /\ s.plagiarism_score = ScoreMatch
        /\ ~\E p \in submission : /\ p.id # s.id
                                   /\ p.assignment_id = s.assignment_id
                                   /\ p.file_hash = s.file_hash

\* C18: the session never holds a student_id and a teacher_id together.
C18_OneIdentity ==
    ~(session.student_id # NoId /\ session.teacher_id # NoId)

\* a student is in the session of the browser a teacher has uploaded an
\* assignment from, and the teacher is not
C18_Witness ==
    /\ assignment # {}
    /\ session.student_id # NoId
    /\ session.teacher_id = NoId

\* a stored string that is trimmed and upper-cased
Normalised(x) == Strip(x) = x /\ Upper(x) = x

\* C19: every Student stored by student_register and every Assignment stored
\* by teacher_upload has year, branch and section trimmed and upper-cased,
\* and the dashboard of a student lists every assignment whose cohort as
\* entered equals the student's cohort as entered up to case and surrounding
\* blanks.
C19_StoredNormalised ==
    /\ \A x \in UNION {{r.year, r.branch, r.section} : r \in student \cup assignment} :
           Normalised(x)
    /\ IsDashboard =>
           \A a \in assignment, f \in StudentForms, u \in UploadForms :
               (/\ page.student = NewStudent(f, page.student.id)
                /\ a = NewAssignment(u, a.id)
                /\ CohortKey(f) = CohortKey(u)) =>
                   a.id \in ListedIds(page.available_assignments)
                              \cup ListedIds(page.submitted_assignments)

\* the dashboard of the student who entered the branch " Ce " lists the
\* assignment entered with branch "ce" and section " a"
C19_Witness ==
    /\ IsDashboard
    /\ page.student = NewStudent(FormCE, page.student.id)
    /\ FormCE.branch # UploadSoon.branch
    /\ \E e \in Range(page.available_assignments) :
           e.assignment = NewAssignment(UploadSoon, e.assignment.id)

====
